---- MODULE Spec2Model ----
(***************************************************************************)
(* Model of the binance-portfolio-demo trading bots.                       *)
(*                                                                         *)
(*   src/trading_bot.py     MockFuturesBot: a JSON file of balances and a  *)
(*                          CLI that buys and sells against it.            *)
(*   src/my_trading_bot.py  FuturesBot: sizing, entry order, SL/TP exits.  *)
(*                                                                         *)
(* The balances of the mock ledger are Python floats (IEEE-754 binary64).  *)
(* They are modelled bit-exactly: a float is a sign and a magnitude, the   *)
(* magnitude an integer count of units of 2^-FracBits held in NumLimbs     *)
(* limbs of LimbBits bits (least significant first), and every arithmetic  *)
(* operation is the exact operation followed by rounding to 53 significant *)
(* bits, ties to even, as the hardware does it.                            *)
(***************************************************************************)
EXTENDS Integers, Sequences, FiniteSets, TLC

(* ------------------------------------------------------------------ *)
(* binary64 arithmetic                                                 *)
(* ------------------------------------------------------------------ *)

\* Representation parameters of the float model (not program constants).
LimbBits == 7 + 7
FracBits == 31 + 31
MantBits == 26 + 27
LimbBase == 2 ^ LimbBits

\* Powers of two up to the limb base.
Pow2Table == << 1, 2, 4, 8, 16, 32, 64, 128, 256, 512, 1024, 2048, 4096, 8192, 16384 >>
Pow2(k) == Pow2Table[k + 1]

\* A magnitude is six limbs, least significant first.
NumLimbs == Len(<< 1, 2, 3, 4, 5, 6 >>)
ZeroMag == << 0, 0, 0, 0, 0, 0 >>

Pow2Limb(k, i) == IF i = (k \div LimbBits) + 1 THEN Pow2(k % LimbBits) ELSE 0

\* 2^k units as a magnitude.
MagPow2(k) ==
    << Pow2Limb(k, 1), Pow2Limb(k, 2), Pow2Limb(k, 3),
       Pow2Limb(k, 4), Pow2Limb(k, 5), Pow2Limb(k, 6) >>

RECURSIVE MagCmpFrom(_, _, _)
MagCmpFrom(a, b, i) ==
    IF i = 0 THEN 0
    ELSE IF a[i] > b[i] THEN 1
    ELSE IF a[i] < b[i] THEN -1
    ELSE MagCmpFrom(a, b, i - 1)

\* -1, 0, 1 as a < b, a = b, a > b.
MagCmp(a, b) == MagCmpFrom(a, b, NumLimbs)

\* a + b, limb by limb with the carry.
MagAdd(a, b) ==
    LET s1 == a[1] + b[1]
        s2 == a[2] + b[2] + (s1 \div LimbBase)
        s3 == a[3] + b[3] + (s2 \div LimbBase)
        s4 == a[4] + b[4] + (s3 \div LimbBase)
        s5 == a[5] + b[5] + (s4 \div LimbBase)
        s6 == a[6] + b[6] + (s5 \div LimbBase)
    IN  << s1 % LimbBase, s2 % LimbBase, s3 % LimbBase,
           s4 % LimbBase, s5 % LimbBase, s6 % LimbBase >>

\* a - b for a >= b, limb by limb with the borrow (\div rounds down).
MagSub(a, b) ==
    LET d1 == a[1] - b[1]
        d2 == a[2] - b[2] + (d1 \div LimbBase)
        d3 == a[3] - b[3] + (d2 \div LimbBase)
        d4 == a[4] - b[4] + (d3 \div LimbBase)
        d5 == a[5] - b[5] + (d4 \div LimbBase)
        d6 == a[6] - b[6] + (d5 \div LimbBase)
    IN  << d1 % LimbBase, d2 % LimbBase, d3 % LimbBase,
           d4 % LimbBase, d5 % LimbBase, d6 % LimbBase >>

\* a * k for a natural number k < 2^17.
MagMulSmall(a, k) ==
    LET m1 == a[1] * k
        m2 == a[2] * k + (m1 \div LimbBase)
        m3 == a[3] * k + (m2 \div LimbBase)
        m4 == a[4] * k + (m3 \div LimbBase)
        m5 == a[5] * k + (m4 \div LimbBase)
        m6 == a[6] * k + (m5 \div LimbBase)
    IN  << m1 % LimbBase, m2 % LimbBase, m3 % LimbBase,
           m4 % LimbBase, m5 % LimbBase, m6 % LimbBase >>

RECURSIVE IntLen(_)
IntLen(n) == IF n = 0 THEN 0 ELSE 1 + IntLen(n \div 2)

RECURSIVE TopLimb(_, _)
TopLimb(a, i) == IF i = 0 THEN 0 ELSE IF a[i] # 0 THEN i ELSE TopLimb(a, i - 1)

\* Number of significant bits of a magnitude.
BitLen(a) ==
    LET t == TopLimb(a, NumLimbs)
    IN  IF t = 0 THEN 0 ELSE LimbBits * (t - 1) + IntLen(a[t])

\* Bit k (0 = least significant) of a magnitude.
Bit(a, k) == (a[(k \div LimbBits) + 1] \div Pow2(k % LimbBits)) % 2

\* Limb i of a magnitude (value x) with the magnitude's s low bits cleared.
TruncLimb(x, i, s) ==
    IF LimbBits * i <= s THEN 0
    ELSE IF LimbBits * (i - 1) >= s THEN x
    ELSE (x \div Pow2(s - LimbBits * (i - 1))) * Pow2(s - LimbBits * (i - 1))

\* The magnitude with its s low bits cleared.
MagTruncate(a, s) ==
    << TruncLimb(a[1], 1, s), TruncLimb(a[2], 2, s), TruncLimb(a[3], 3, s),
       TruncLimb(a[4], 4, s), TruncLimb(a[5], 5, s), TruncLimb(a[6], 6, s) >>

\* Round to nearest, ties to even, at MantBits significant bits.
RoundMag(a) ==
    LET s == BitLen(a) - MantBits
    IN  IF s <= 0 THEN a
        ELSE LET half == MagPow2(s - 1)
                 inc  == IF Bit(a, s) = 1 THEN half ELSE MagSub(half, MagPow2(0))
             IN  MagTruncate(MagAdd(a, inc), s)

\* A float: sign and magnitude; zero is never negative (0.0 == -0.0 in Python).
MkFloat(n, m) == [neg |-> n /\ m # ZeroMag, mag |-> m]

FZero == MkFloat(FALSE, ZeroMag)

\* The float of a natural number n < 2^17.
FInt(n) == MkFloat(FALSE, MagMulSmall(MagPow2(FracBits), n))

FNeg(x) == MkFloat(~x.neg, x.mag)

FIsNeg(x) == x.neg

\* Python's x + y.
FAdd(x, y) ==
    IF x.neg = y.neg
    THEN MkFloat(x.neg, RoundMag(MagAdd(x.mag, y.mag)))
    ELSE IF MagCmp(x.mag, y.mag) >= 0
    THEN MkFloat(x.neg, RoundMag(MagSub(x.mag, y.mag)))
    ELSE MkFloat(y.neg, RoundMag(MagSub(y.mag, x.mag)))

\* Python's x - y.
FSub(x, y) == FAdd(x, FNeg(y))

\* Python's p * x for an integer-valued positive float p < 2^17.
FMulInt(p, x) == MkFloat(x.neg, RoundMag(MagMulSmall(x.mag, p)))

\* Python's x >= y.
FGE(x, y) ==
    IF x.neg /\ ~y.neg THEN FALSE
    ELSE IF ~x.neg /\ y.neg THEN TRUE
    ELSE IF x.neg THEN MagCmp(x.mag, y.mag) <= 0
    ELSE MagCmp(x.mag, y.mag) >= 0

(* ------------------------------------------------------------------ *)
(* strings and dicts                                                   *)
(* ------------------------------------------------------------------ *)

\* A Python str is a sequence of one-character strings.
LowerAlphabet == << "a", "b", "c", "d", "e", "f", "g", "h", "i", "j", "k", "l", "m",
                    "n", "o", "p", "q", "r", "s", "t", "u", "v", "w", "x", "y", "z" >>
UpperAlphabet == << "A", "B", "C", "D", "E", "F", "G", "H", "I", "J", "K", "L", "M",
                    "N", "O", "P", "Q", "R", "S", "T", "U", "V", "W", "X", "Y", "Z" >>

UpperChar(c) ==
    LET at == {i \in DOMAIN LowerAlphabet : LowerAlphabet[i] = c}
    IN  IF at = {} THEN c ELSE UpperAlphabet[CHOOSE i \in at : TRUE]

\* str.upper()
Upper(s) == [i \in DOMAIN s |-> UpperChar(s[i])]

\* str.replace(old, ""): every non-overlapping occurrence, left to right.
RECURSIVE StrRemove(_, _)
StrRemove(s, old) ==
    IF Len(s) < Len(old) THEN s
    ELSE IF SubSeq(s, 1, Len(old)) = old
    THEN StrRemove(SubSeq(s, Len(old) + 1, Len(s)), old)
    ELSE <<s[1]>> \o StrRemove(Tail(s), old)

USDT == << "U", "S", "D", "T" >>
BTC == << "B", "T", "C" >>
ETH == << "E", "T", "H" >>
BNB == << "B", "N", "B" >>
BTCUSDT == BTC \o USDT
ETHUSDT == ETH \o USDT
BNBUSDT == BNB \o USDT
ethusdt == << "e", "t", "h", "u", "s", "d", "t" >>
XRPUSDT == << "X", "R", "P" >> \o USDT

SIDE_BUY == "BUY"
SIDE_SELL == "SELL"

\* dict.get(k, default)
DictGet(d, k, default) == IF k \in DOMAIN d THEN d[k] ELSE default

\* d[k] = v
DictSet(d, k, v) == [x \in (DOMAIN d) \cup {k} |-> IF x = k THEN v ELSE d[x]]

(* ------------------------------------------------------------------ *)
(* MockFuturesBot (src/trading_bot.py)                                 *)
(* ------------------------------------------------------------------ *)

\* A file that does not exist yet.
NoFile == [exists |-> FALSE, json |-> << >>]

\* A file holding content. json.dump writes each float as repr(float), the
\* shortest decimal that json.load reads back as the same binary64 value, so a
\* file is represented by the values it holds.
File(content) == [exists |-> TRUE, json |-> content]

\* The balances MockFuturesBot.__init__ writes when there is no balance file.
DefaultBalance == [a \in {USDT, BTC, ETH} |-> IF a = USDT THEN FInt(1000) ELSE FZero]

\* The price list MockFuturesBot.__init__ writes when there is no price file.
DefaultPrices == << [symbol |-> BTCUSDT, price |-> 68000],
                    [symbol |-> ETHUSDT, price |-> 3200],
                    [symbol |-> BNBUSDT, price |-> 560] >>

\* A constructor that writes the default content whether or not the file exists.
init_file_always_default(f, default) == File(default)

\* MockFuturesBot.__init__: a missing file is created, an existing one is left alone.
InitFile(f, default) == IF f.exists THEN f ELSE File(default)

\* Outcomes of a call: a returned value, or an exception that left the call.
Returned(v, logs) == [raised |-> FALSE, error |-> "", value |-> v, logs |-> logs]
Raised(e, logs) == [raised |-> TRUE, error |-> e, value |-> << >>, logs |-> logs]

\* MockFuturesBot.get_price: the first entry whose symbol is symbol.upper().
MockFuturesBot_get_price(prices, symbol) ==
    LET wanted == Upper(symbol)
        hits   == {i \in DOMAIN prices : prices[i].symbol = wanted}
    IN  IF hits = {} THEN Raised("ValueError: Symbol not found", << >>)
        ELSE Returned(prices[CHOOSE i \in hits : \A j \in hits : i <= j].price, << >>)

\* MockFuturesBot.get_all_prices: the price list as stored; nothing is written.
MockFuturesBot_get_all_prices(prices) == Returned(prices, << >>)

\* A show_balance that writes the default balances back to the store.
show_balance_resetting(stored) ==
    [stored |-> DefaultBalance, out |-> Returned(stored, << "INFO Balance checked." >>)]

\* MockFuturesBot.show_balance: the stored balances (_load_balance) are
\* returned; stored is what the balance file holds after the call.
MockFuturesBot_show_balance(stored) ==
    [stored |-> stored, out |-> Returned(stored, << "INFO Balance checked." >>)]

\* The dict a successful order returns (the timestamp is left out).
OrderResult(symbol, side, amount, price) ==
    [symbol |-> symbol, side |-> side, amount |-> amount, price |-> price]

\* BuyBranch with the debit forgotten: the base asset is credited for free.
buy_branch_no_debit(bal, base, price, amount) ==
    IF FGE(bal[USDT], FMulInt(price, amount))
    THEN Returned(DictSet(bal, base, FAdd(DictGet(bal, base, FZero), amount)), << "INFO Bought" >>)
    ELSE Raised("ValueError: Not enough USDT balance.", << "ERROR Not enough USDT balance." >>)

\* The BUY branch of place_market_order on the loaded dict bal.
BuyBranch(bal, base, price, amount) ==
    LET cost == FMulInt(price, amount)
    IN  IF FGE(bal[USDT], cost)
        THEN LET debited == DictSet(bal, USDT, FSub(bal[USDT], cost))
             IN  Returned(DictSet(debited, base, FAdd(DictGet(debited, base, FZero), amount)),
                          << "INFO Bought" >>)
        ELSE Raised("ValueError: Not enough USDT balance.", << "ERROR Not enough USDT balance." >>)

\* The SELL branch of place_market_order on the loaded dict bal.
SellBranch(bal, base, price, amount) ==
    IF FGE(DictGet(bal, base, FZero), amount)
    THEN LET credited == DictSet(bal, USDT, FAdd(bal[USDT], FMulInt(price, amount)))
         IN  IF base \in DOMAIN credited
             THEN Returned(DictSet(credited, base, FSub(credited[base], amount)),
                           << "INFO Sold" >>)
             ELSE Raised("KeyError", << >>)
    ELSE Raised("ValueError: Not enough base balance.", << "ERROR Not enough base balance." >>)

\* FillBalance taking every side that is not BUY for SELL.
fill_balance_side_unchecked(bal, quote, symbol, side, amount) ==
    LET base == StrRemove(symbol, USDT)
    IN  IF quote.raised THEN quote
        ELSE IF side = SIDE_BUY THEN BuyBranch(bal, base, quote.value, amount)
        ELSE SellBranch(bal, base, quote.value, amount)

\* The dict place_market_order would save: bal after the fill, or the exception
\* raised before _save_balance is reached.
FillBalance(bal, quote, symbol, side, amount) ==
    LET base == StrRemove(symbol, USDT)
    IN  IF quote.raised THEN quote
        ELSE IF side = SIDE_BUY THEN BuyBranch(bal, base, quote.value, amount)
        ELSE IF side = SIDE_SELL THEN SellBranch(bal, base, quote.value, amount)
        ELSE Raised("ValueError: Invalid side. Use BUY or SELL.", << "ERROR Invalid order side." >>)

\* MockFuturesBot_place_market_order debiting the stored balances before the check, so that a
\* rejected order leaves its debit behind.
place_market_order_debit_first(stored, prices, symbol, side, amount) ==
    LET quote == MockFuturesBot_get_price(prices, symbol)
        fill  == FillBalance(stored, quote, symbol, side, amount)
        base  == StrRemove(symbol, USDT)
        debit == IF side = SIDE_BUY
                 THEN DictSet(stored, USDT, FSub(stored[USDT], FMulInt(quote.value, amount)))
                 ELSE DictSet(stored, base, FSub(DictGet(stored, base, FZero), amount))
    IN  IF quote.raised
        THEN [stored |-> stored, saved |-> FALSE, out |-> fill]
        ELSE IF fill.raised
        THEN [stored |-> debit, saved |-> TRUE, out |-> fill]
        ELSE [stored |-> fill.value, saved |-> TRUE,
              out |-> Returned(OrderResult(symbol, side, amount, quote.value), fill.logs)]

\* MockFuturesBot.place_market_order on the stored balances: the balances stored
\* after the call (saved is what _save_balance wrote, or the store untouched), and
\* what the caller gets.
MockFuturesBot_place_market_order(stored, prices, symbol, side, amount) ==
    LET quote == MockFuturesBot_get_price(prices, symbol)
        fill  == FillBalance(stored, quote, symbol, side, amount)
    IN  IF fill.raised
        THEN [stored |-> stored, saved |-> FALSE, out |-> fill]
        ELSE [stored |-> fill.value, saved |-> TRUE,
              out |-> Returned(OrderResult(symbol, side, amount, quote.value), fill.logs)]

(* ------------------------------------------------------------------ *)
(* exact rational arithmetic                                           *)
(* ------------------------------------------------------------------ *)

\* The sizing and price-level formulas of both programs are float expressions.
\* They are modelled on exact rationals num/den (den > 0, lowest terms): the
\* float rounding error of these formulas is far below the 2 and 3 decimals
\* the results are rounded to; the inputs tried keep the results away from
\* ties at the last decimal, where the two could round differently.
GCD(a, b) ==
    LET gcd[x \in Nat, y \in Nat] == IF y = 0 THEN x ELSE gcd[y, x % y]
    IN  gcd[a, b]

Abs(n) == IF n < 0 THEN -n ELSE n

Rat(n, d) ==
    LET g == GCD(Abs(n), Abs(d))
    IN  IF d < 0 THEN [num |-> (-n) \div g, den |-> (-d) \div g]
        ELSE [num |-> n \div g, den |-> d \div g]

RInt(n) == [num |-> n, den |-> 1]
RAdd(x, y) == Rat(x.num * y.den + y.num * x.den, x.den * y.den)
RSub(x, y) == Rat(x.num * y.den - y.num * x.den, x.den * y.den)
RMul(x, y) == Rat(x.num * y.num, x.den * y.den)
\* x / y for y # 0
RDiv(x, y) == Rat(x.num * y.den, x.den * y.num)
RLess(x, y) == x.num * y.den < y.num * x.den

\* Python's round(x, digits): to the nearest multiple of 10^-digits, ties to even.
Round(x, digits) ==
    LET scale == 10 ^ digits
        n     == x.num * scale
        q     == n \div x.den
        r     == n - q * x.den
        up    == 2 * r > x.den \/ (2 * r = x.den /\ q % 2 = 1)
    IN  Rat(IF up THEN q + 1 ELSE q, scale)

\* Python's None, and a value that is not None.
None == [none |-> TRUE]
Some(v) == [none |-> FALSE, some |-> v]

(* ------------------------------------------------------------------ *)
(* position sizing (both programs)                                     *)
(* ------------------------------------------------------------------ *)

\* A reply of the exchange to a query: a value, or any failure of the call.
Reply(v) == [ok |-> TRUE, value |-> v]
NoReply == [ok |-> FALSE, value |-> RInt(0)]

\* FuturesBot.get_balance: the USDT balance, or None after any exception.
FuturesBot_get_balance(reply) ==
    IF reply.ok THEN Returned(Some(reply.value), << "INFO Account balance" >>)
    ELSE Returned(None, << "ERROR Error fetching account balance" >>)

\* The quantity formula shared by both calculate_position_size functions:
\* (balance * (risk_pct / 100) * leverage) / (price * stop_loss_pct), or the
\* ZeroDivisionError of a zero stop distance.
PositionSize(balance, price, risk_pct, stop_loss_pct, leverage) ==
    LET risk_amount   == RMul(balance, RDiv(risk_pct, RInt(100)))
        stop_distance == RMul(price, stop_loss_pct)
    IN  IF stop_distance.num = 0 THEN Raised("ZeroDivisionError", << >>)
        ELSE Returned(RDiv(RMul(risk_amount, RInt(leverage)), stop_distance), << >>)

\* calculate_position_size of my_trading_bot.py: (round(qty, 3), current_price).
calculate_position_size(balance_reply, price_reply, risk_pct, stop_loss_pct, leverage) ==
    LET balance == FuturesBot_get_balance(balance_reply)
        qty     == PositionSize(balance.value.some, price_reply.value,
                                risk_pct, stop_loss_pct, leverage)
    IN  IF balance.value.none
        THEN Raised("ValueError: Failed to get account balance", balance.logs)
        ELSE IF ~price_reply.ok THEN Raised("exchange: futures_mark_price failed", balance.logs)
        ELSE IF qty.raised THEN Raised(qty.error, balance.logs)
        ELSE Returned([quantity |-> Round(qty.value, 3), price |-> price_reply.value],
                      balance.logs)

\* calculate_position_size of trading_bot.py on the USDT balance show_balance
\* returned: (position_size, price), the quantity not rounded.
trading_bot_calculate_position_size(usdt_balance, prices, symbol, risk_pct, stop_loss_pct, leverage) ==
    LET quote == MockFuturesBot_get_price(prices, symbol)
        qty   == PositionSize(usdt_balance, RInt(quote.value), risk_pct, stop_loss_pct, leverage)
    IN  IF quote.raised THEN Raised(quote.error, << "INFO Balance checked." >>)
        ELSE IF qty.raised THEN Raised(qty.error, << "INFO Balance checked." >>)
        ELSE Returned([quantity |-> qty.value, price |-> RInt(quote.value)],
                      << "INFO Balance checked.", "INFO Calculated position size" >>)

(* ------------------------------------------------------------------ *)
(* FuturesBot (src/my_trading_bot.py)                                  *)
(* ------------------------------------------------------------------ *)

\* What can become of a futures_create_order call: the order is accepted, the
\* exchange rejects it (BinanceAPIException, BinanceOrderException), or the call
\* fails with another exception (the connection).
OrderReplies == {"accepted", "rejected", "unreachable"}

\* The keyword arguments of a futures_create_order call; purpose names the
\* call site.
MarketRequest(symbol, side, quantity) ==
    [purpose |-> "entry", symbol |-> symbol, side |-> side, type |-> "MARKET",
     quantity |-> Some(quantity), stopPrice |-> None,
     closePosition |-> FALSE, reduceOnly |-> FALSE]
StopRequest(purpose, symbol, side, stop_price) ==
    [purpose |-> purpose, symbol |-> symbol, side |-> side, type |-> "STOP_MARKET",
     quantity |-> None, stopPrice |-> Some(Round(stop_price, 2)),
     closePosition |-> TRUE, reduceOnly |-> TRUE]

Attempt(request, reply) == [request |-> request, reply |-> reply]

\* A place_market_order that submits a rejected order a second time.
place_market_order_retrying(symbol, side, quantity, reply) ==
    LET request == MarketRequest(symbol, side, quantity)
    IN  [attempts |-> IF reply = "rejected"
                      THEN << Attempt(request, reply), Attempt(request, reply) >>
                      ELSE << Attempt(request, reply) >>,
         out |-> CASE reply = "accepted" -> Returned(Some(request), << "INFO Market order placed" >>)
                   [] reply = "rejected" -> Returned(None, << "ERROR Error placing market order" >>)
                   [] OTHER -> Raised("ConnectionError", << >>)]

\* FuturesBot.place_market_order: the order, None when the exchange rejects it.
FuturesBot_place_market_order(symbol, side, quantity, reply) ==
    LET request == MarketRequest(symbol, side, quantity)
    IN  [attempts |-> << Attempt(request, reply) >>,
         out |-> CASE reply = "accepted" -> Returned(Some(request), << "INFO Market order placed" >>)
                   [] reply = "rejected" -> Returned(None, << "ERROR Error placing market order" >>)
                   [] OTHER -> Raised("ConnectionError", << >>)]

\* RealFuturesBot.place_market_order of trading_bot.py: futures_create_order
\* with no exception handler around it, then the log record and the order.
RealFuturesBot_place_market_order(symbol, side, amount, reply) ==
    LET request == [MarketRequest(symbol, side, amount) EXCEPT !.purpose = "market"]
    IN  [attempts |-> << Attempt(request, reply) >>,
         out |-> CASE reply = "accepted" -> Returned(Some(request), << "INFO Executed order" >>)
                   [] reply = "rejected" -> Raised("BinanceAPIException", << >>)
                   [] OTHER -> Raised("ConnectionError", << >>)]

\* The exit side hard-wired to SELL, as for a long entry.
exit_side_always_sell(entry_side) == SIDE_SELL

\* set_risk_management: exit_side = SIDE_SELL if entry_side == SIDE_BUY else SIDE_BUY
ExitSide(entry_side) == IF entry_side = SIDE_BUY THEN SIDE_SELL ELSE SIDE_BUY

\* FuturesBot.set_risk_management: the stop-loss is submitted, then the
\* take-profit; the first rejection ends the call with None.
FuturesBot_set_risk_management(symbol, entry_side, stop_loss_price, take_profit_price, sl_reply, tp_reply) ==
    LET exit_side == ExitSide(entry_side)
        sl == StopRequest("stop_loss", symbol, exit_side, stop_loss_price)
        tp == StopRequest("take_profit", symbol, exit_side, take_profit_price)
        failed == << "ERROR Error placing SL/TP orders" >>
    IN  IF sl_reply = "unreachable"
        THEN [attempts |-> << Attempt(sl, sl_reply) >>, out |-> Raised("ConnectionError", << >>)]
        ELSE IF sl_reply = "rejected"
        THEN [attempts |-> << Attempt(sl, sl_reply) >>, out |-> Returned(None, failed)]
        ELSE IF tp_reply = "unreachable"
        THEN [attempts |-> << Attempt(sl, sl_reply), Attempt(tp, tp_reply) >>,
              out |-> Raised("ConnectionError", << >>)]
        ELSE IF tp_reply = "rejected"
        THEN [attempts |-> << Attempt(sl, sl_reply), Attempt(tp, tp_reply) >>,
              out |-> Returned(None, failed)]
        ELSE [attempts |-> << Attempt(sl, sl_reply), Attempt(tp, tp_reply) >>,
              out |-> Returned(Some([stop_loss |-> sl, take_profit |-> tp]),
                               << "INFO Placed SL/TP Orders" >>)]

\* The exits placed whatever became of the entry order.
entry_confirmed_always(entry_order) == TRUE

\* The main block's "if entry_order:".
EntryConfirmed(entry_order) == ~entry_order.none

(* ------------------------------------------------------------------ *)
(* state                                                               *)
(* ------------------------------------------------------------------ *)

VARIABLES
    balance_file,   \* data/mock_balance.json
    price_file,     \* data/mock_prices.json
    last,           \* the last command: its arguments, outcome and the balances before it
    n_commands,     \* commands run so far
    procs,          \* concurrent place_market_order calls: position and locals of each
    cfg,            \* my_trading_bot.py: the configuration section
    ses,            \* my_trading_bot.py: position and locals of the main block
    orders,         \* every futures_create_order attempt, with the exchange's reply
    call            \* a direct call of a function: its arguments and result

ledgerVars == <<balance_file, price_file, last, n_commands>>
concVars == <<procs>>
sessionVars == <<cfg, ses, orders>>
callVars == <<call>>
vars == <<ledgerVars, concVars, sessionVars, callVars>>

(* ------------------------------------------------------------------ *)
(* the command line of trading_bot.py                                  *)
(* ------------------------------------------------------------------ *)

\* float(text) of argparse's type=float: the nearest binary64 value.
Amount0001 == MkFloat(FALSE, << 10748, 3014, 9437, 1048, 0, 0 >>)
Amount001 == MkFloat(FALSE, << 9176, 13762, 12451, 10485, 0, 0 >>)
ParseFloat(text) ==
    CASE text = "0" -> FZero
      [] text = "0.001" -> Amount0001
      [] text = "0.01" -> Amount001
      [] text = "-1" -> FNeg(FInt(1))

\* The --symbol and --amount values tried.
SymbolInputs == {BTCUSDT, BNBUSDT, ethusdt, XRPUSDT}
AmountInputs == {"0", "0.001", "0.01", "-1"}

\* Commands run in one behaviour.
MaxCommands == 3

NoCommand ==
    [command |-> "none", symbol |-> << >>, arg |-> "", amount |-> FZero, before |-> << >>,
     saved |-> FALSE, out |-> Returned(<< >>, << >>)]

NoProcs == [p \in {} |-> 0]

\* The parts of the state a specification does not use.
NoLedger ==
    /\ balance_file = NoFile
    /\ price_file = NoFile
    /\ last = NoCommand
    /\ n_commands = 0
NoSession ==
    /\ cfg = [unused |-> TRUE]
    /\ ses = [pc |-> "unused"]
    /\ orders = << >>
NoCall == call = [fn |-> "unused"]

Init ==
    /\ balance_file = NoFile
    /\ price_file = NoFile
    /\ last = NoCommand
    /\ n_commands = 0
    /\ procs = NoProcs
    /\ NoSession
    /\ NoCall

\* main() with command buy or sell: build_bot() constructs the MockFuturesBot,
\* then the order is placed unless --symbol or --amount is missing or zero.
OrderCommand(command, side, symbol, arg) ==
    LET bal    == InitFile(balance_file, DefaultBalance)
        prices == InitFile(price_file, DefaultPrices)
        amount == ParseFloat(arg)
        placed == MockFuturesBot_place_market_order(bal.json, prices.json, symbol, side, amount)
        sent   == [command |-> command, symbol |-> symbol, arg |-> arg, amount |-> amount,
                   before |-> bal.json]
    IN  /\ n_commands < MaxCommands
        /\ n_commands' = n_commands + 1
        /\ price_file' = prices
        /\ IF amount = FZero
           THEN /\ balance_file' = bal
                /\ last' = sent @@ [saved |-> FALSE,
                                    out |-> Returned(<< >>, << "WARNING Please provide --symbol and --amount" >>)]
           ELSE /\ balance_file' = File(placed.stored)
                /\ last' = sent @@ [saved |-> placed.saved, out |-> placed.out]
        /\ UNCHANGED <<concVars, sessionVars, callVars>>

Buy == \E symbol \in SymbolInputs, arg \in AmountInputs :
           OrderCommand("buy", SIDE_BUY, symbol, arg)

Sell == \E symbol \in SymbolInputs, arg \in AmountInputs :
            OrderCommand("sell", SIDE_SELL, symbol, arg)

Next == Buy \/ Sell

Spec == Init /\ [][Next]_vars

(* ------------------------------------------------------------------ *)
(* two processes placing orders against the same balance file          *)
(* ------------------------------------------------------------------ *)

Procs == {1, 2}

\* The orders the two processes place: positive amounts on listed symbols.
ConcSymbolInputs == {BTCUSDT, ETHUSDT, BNBUSDT}
ConcAmountInputs == {"0.001", "0.01"}

Waiting == [pc |-> "start", symbol |-> << >>, side |-> "", arg |-> "", bal |-> << >>,
            out |-> Returned(<< >>, << >>)]

\* Both bots are constructed; the files hold the defaults.
InitConcurrent ==
    /\ balance_file = File(DefaultBalance)
    /\ price_file = File(DefaultPrices)
    /\ last = NoCommand
    /\ n_commands = 0
    /\ procs = [p \in Procs |-> Waiting]
    /\ NoSession
    /\ NoCall

\* place_market_order, first statement: bal = self._load_balance().
Load(p) ==
    \E symbol \in ConcSymbolInputs, side \in {SIDE_BUY, SIDE_SELL}, arg \in ConcAmountInputs :
        /\ procs[p].pc = "start"
        /\ procs' = [procs EXCEPT ![p] = [pc |-> "loaded", symbol |-> symbol, side |-> side,
                                          arg |-> arg, bal |-> balance_file.json,
                                          out |-> Returned(<< >>, << >>)]]
        /\ UNCHANGED <<ledgerVars, sessionVars, callVars>>

\* place_market_order, the rest: the fill on the loaded dict, then either the
\* exception or self._save_balance(bal) and the order returned.
Finish(p) ==
    LET me   == procs[p]
        placed == MockFuturesBot_place_market_order(me.bal, price_file.json, me.symbol, me.side, ParseFloat(me.arg))
    IN  /\ me.pc = "loaded"
        /\ procs' = [procs EXCEPT ![p] = [me EXCEPT !.pc = "done", !.out = placed.out]]
        /\ balance_file' = IF placed.saved THEN File(placed.stored) ELSE balance_file
        /\ UNCHANGED <<price_file, last, n_commands, sessionVars, callVars>>

NextConcurrent == \E p \in Procs : Load(p) \/ Finish(p)

SpecConcurrent == InitConcurrent /\ [][NextConcurrent]_vars

(* ------------------------------------------------------------------ *)
(* processes using a MockFuturesBot one after the other                *)
(* ------------------------------------------------------------------ *)

\* Each step is one process: it constructs a MockFuturesBot on the data
\* directory the previous processes left and runs one operation on it.
BotSymbols == {BTCUSDT, ethusdt, XRPUSDT}
BotSides == {SIDE_BUY, SIDE_SELL, "HOLD"}
BotAmounts == {"0.001", "0.01", "-1"}

\* Processes run in one behaviour.
MaxCalls == 3

NoBotCall ==
    [command |-> "none", symbol |-> << >>, side |-> "", arg |-> "", amount |-> FZero,
     before |-> << >>, saved |-> FALSE, out |-> Returned(<< >>, << >>)]

InitBot ==
    /\ balance_file = NoFile
    /\ price_file = NoFile
    /\ last = NoBotCall
    /\ n_commands = 0
    /\ procs = NoProcs
    /\ NoSession
    /\ NoCall

\* A process that constructs the bot and runs an operation that writes stored
\* to the balance file when saved (the constructor's files otherwise).
BotProcess(command, symbol, side, arg, saved, stored, out) ==
    LET bal    == InitFile(balance_file, DefaultBalance)
        prices == InitFile(price_file, DefaultPrices)
    IN  /\ n_commands < MaxCalls
        /\ n_commands' = n_commands + 1
        /\ price_file' = prices
        /\ balance_file' = IF saved THEN File(stored) ELSE bal
        /\ last' = [command |-> command, symbol |-> symbol, side |-> side, arg |-> arg,
                    amount |-> IF arg = "" THEN FZero ELSE ParseFloat(arg),
                    before |-> bal.json, saved |-> saved, out |-> out]
        /\ UNCHANGED <<concVars, sessionVars, callVars>>

\* bot = MockFuturesBot() and nothing else: a restart.
Construct ==
    BotProcess("construct", << >>, "", "", FALSE, << >>, Returned(<< >>, << >>))

\* main() with command prices: print(json.dumps(bot.get_all_prices())).
Prices ==
    BotProcess("prices", << >>, "", "", FALSE, << >>,
               MockFuturesBot_get_all_prices(InitFile(price_file, DefaultPrices).json))

\* main() with command balance: print(json.dumps(bot.show_balance())).
Balance ==
    LET r == MockFuturesBot_show_balance(InitFile(balance_file, DefaultBalance).json)
    IN  BotProcess("balance", << >>, "", "", r.stored # r.out.value, r.stored, r.out)

\* main() with command calc and --risk 1 --stop 0.01: the usage warning when
\* --symbol is missing, else calculate_position_size: show_balance, get_price
\* and the arithmetic (the quantity printed is left out of the outcome).
Calc ==
    \E symbol \in BotSymbols \cup {<< >>} :
        LET r     == MockFuturesBot_show_balance(InitFile(balance_file, DefaultBalance).json)
            quote == MockFuturesBot_get_price(InitFile(price_file, DefaultPrices).json, symbol)
            out   == IF symbol = << >> THEN Returned(<< >>, << "WARNING Usage" >>)
                     ELSE IF quote.raised THEN Raised(quote.error, r.out.logs)
                     ELSE Returned(<< >>, r.out.logs \o << "INFO Calculated position size" >>)
            wrote == symbol # << >> /\ r.stored # r.out.value
        IN  BotProcess("calc", symbol, "", "", wrote, r.stored, out)

\* bot.place_market_order(symbol, side, amount) on a freshly constructed bot.
Order ==
    \E symbol \in BotSymbols, side \in BotSides, arg \in BotAmounts :
        LET placed == MockFuturesBot_place_market_order(
                          InitFile(balance_file, DefaultBalance).json,
                          InitFile(price_file, DefaultPrices).json,
                          symbol, side, ParseFloat(arg))
        IN  BotProcess("order", symbol, side, arg, placed.saved, placed.stored, placed.out)

NextBot == Construct \/ Prices \/ Balance \/ Calc \/ Order

SpecBot == InitBot /\ [][NextBot]_vars

(* ------------------------------------------------------------------ *)
(* the main block of my_trading_bot.py                                 *)
(* ------------------------------------------------------------------ *)

\* The configuration section as shipped.
SYMBOL == BTCUSDT
RISK_PERCENT == RInt(1)
STOP_LOSS_PCT == Rat(1, 100)
TAKE_PROFIT_PCT == Rat(2, 100)
LEVERAGE == 10

\* The configurations tried: the shipped one, and edits of its stop-loss
\* percentage and leverage.
StopLossInputs == {STOP_LOSS_PCT, RInt(0), Rat(-1, 100)}
LeverageInputs == {LEVERAGE, 1, 0, -1}

\* What the exchange may answer to the balance and mark-price queries.
BalanceReplies == {Reply(RInt(1000)), Reply(RInt(250)), NoReply}
PriceReplies == {Reply(RInt(68000)), Reply(Rat(32103, 10)), Reply(Rat(1, 25)), Reply(RInt(0)), NoReply}

InitSession ==
    /\ NoLedger
    /\ procs = NoProcs
    /\ NoCall
    /\ cfg \in [symbol : {SYMBOL}, risk_pct : {RISK_PERCENT}, stop_loss_pct : StopLossInputs,
                take_profit_pct : {TAKE_PROFIT_PCT}, leverage : LeverageInputs]
    /\ ses = [pc |-> "start", balance |-> None, mark_price |-> None, sized |-> None,
              entry_order |-> None, risk_orders |-> None, error |-> ""]
    /\ orders = << >>

\* bot.set_leverage(SYMBOL, LEVERAGE): every exception of the call is logged
\* and swallowed.
SetLeverage ==
    /\ ses.pc = "start"
    /\ \E reply \in OrderReplies : ses' = [ses EXCEPT !.pc = "sizing"]
    /\ UNCHANGED <<ledgerVars, concVars, cfg, orders, callVars>>

\* quantity, entry_price = calculate_position_size(...); an exception ends the script.
Size ==
    \E balance_reply \in BalanceReplies, price_reply \in PriceReplies :
        LET r == calculate_position_size(balance_reply, price_reply, cfg.risk_pct,
                                         cfg.stop_loss_pct, cfg.leverage)
            asked == [ses EXCEPT !.balance = FuturesBot_get_balance(balance_reply).value,
                                 !.mark_price = IF balance_reply.ok /\ price_reply.ok
                                                THEN Some(price_reply.value) ELSE None]
        IN  /\ ses.pc = "sizing"
            /\ ses' = IF r.raised
                      THEN [asked EXCEPT !.pc = "crashed", !.error = r.error]
                      ELSE [asked EXCEPT !.pc = "entry", !.sized = Some(r.value)]
            /\ UNCHANGED <<ledgerVars, concVars, cfg, orders, callVars>>

\* entry_order = bot.place_market_order(SYMBOL, SIDE_BUY, quantity)
Entry ==
    \E reply \in OrderReplies :
        LET r == FuturesBot_place_market_order(cfg.symbol, SIDE_BUY, ses.sized.some.quantity, reply)
        IN  /\ ses.pc = "entry"
            /\ orders' = orders \o r.attempts
            /\ ses' = IF r.out.raised
                      THEN [ses EXCEPT !.pc = "crashed", !.error = r.out.error]
                      ELSE [ses EXCEPT !.pc = "entered", !.entry_order = r.out.value]
            /\ UNCHANGED <<ledgerVars, concVars, cfg, callVars>>

\* "if entry_order:" the price levels and bot.set_risk_management(...); then
\* the closing print.
Exits ==
    \E sl_reply \in OrderReplies, tp_reply \in OrderReplies :
        LET entry_price == ses.sized.some.price
            stop_loss_price == RMul(entry_price, RSub(RInt(1), cfg.stop_loss_pct))
            take_profit_price == RMul(entry_price, RAdd(RInt(1), cfg.take_profit_pct))
            r == FuturesBot_set_risk_management(cfg.symbol, SIDE_BUY, stop_loss_price,
                                                take_profit_price, sl_reply, tp_reply)
        IN  /\ ses.pc = "entered"
            /\ IF EntryConfirmed(ses.entry_order)
               THEN /\ orders' = orders \o r.attempts
                    /\ ses' = IF r.out.raised
                              THEN [ses EXCEPT !.pc = "crashed", !.error = r.out.error]
                              ELSE [ses EXCEPT !.pc = "done", !.risk_orders = r.out.value]
               ELSE /\ orders' = orders
                    /\ ses' = [ses EXCEPT !.pc = "done"]
            /\ UNCHANGED <<ledgerVars, concVars, cfg, callVars>>

NextSession == SetLeverage \/ Size \/ Entry \/ Exits

SpecSession == InitSession /\ [][NextSession]_vars

\* The script is sequential and every exchange call returns or raises: a
\* statement that can run does run.
SpecSessionFair == SpecSession /\ WF_vars(NextSession)

(* ------------------------------------------------------------------ *)
(* direct calls of the sizing functions and of set_risk_management     *)
(* ------------------------------------------------------------------ *)

\* The arguments tried.
CallBalances == {RInt(1000), RInt(250)}
CallRiskPcts == {RInt(1), Rat(5, 2)}
CallStopPcts == {Rat(1, 100), Rat(3, 100)}
CallLeverages == {1, 10}
CallSymbols == {BTCUSDT, ETHUSDT}
CallSides == {SIDE_BUY, SIDE_SELL}
CallStopPrices == {RInt(67320), Rat(67320125, 1000)}

InitCalls ==
    /\ NoLedger
    /\ procs = NoProcs
    /\ cfg = [unused |-> TRUE]
    /\ ses = [pc |-> "unused"]
    /\ orders = << >>
    /\ call \in [fn : {"none"}, balance : CallBalances, risk_pct : CallRiskPcts,
                 stop_loss_pct : CallStopPcts, leverage : CallLeverages,
                 symbol : CallSymbols, entry_side : CallSides,
                 stop_loss_price : CallStopPrices, out : {Returned(<< >>, << >>)}]

\* my_trading_bot.calculate_position_size(bot, symbol, risk_pct, stop_loss_pct, leverage)
\* with the exchange answering the balance and the symbol's mark price.
CallSize ==
    /\ call.fn = "none"
    /\ call' = [call EXCEPT
           !.fn = "my_trading_bot.calculate_position_size",
           !.out = calculate_position_size(
                       Reply(call.balance),
                       Reply(RInt(MockFuturesBot_get_price(DefaultPrices, call.symbol).value)),
                       call.risk_pct, call.stop_loss_pct, call.leverage)]
    /\ UNCHANGED <<ledgerVars, concVars, sessionVars>>

\* trading_bot.calculate_position_size(bot, symbol, risk_pct, stop_loss_pct, leverage)
\* on a mock bot holding the USDT balance.
CallMockSize ==
    /\ call.fn = "none"
    /\ call' = [call EXCEPT
           !.fn = "trading_bot.calculate_position_size",
           !.out = trading_bot_calculate_position_size(call.balance, DefaultPrices, call.symbol,
                       call.risk_pct, call.stop_loss_pct, call.leverage)]
    /\ UNCHANGED <<ledgerVars, concVars, sessionVars>>

\* bot.set_risk_management(symbol, entry_side, stop_loss_price, take_profit_price)
CallSetRiskManagement ==
    \E sl_reply \in OrderReplies, tp_reply \in OrderReplies :
        LET r == FuturesBot_set_risk_management(call.symbol, call.entry_side,
                     call.stop_loss_price, RInt(69360), sl_reply, tp_reply)
        IN  /\ call.fn = "none"
            /\ call' = [call EXCEPT !.fn = "set_risk_management", !.out = r.out]
            /\ orders' = orders \o r.attempts
            /\ UNCHANGED <<ledgerVars, concVars, cfg, ses>>

\* The quantities and amounts of the orders placed directly.
CallQuantities == {Rat(147, 1000), Rat(1, 100)}
CallAmountInputs == {"0.01", "-1"}

\* bot.place_market_order(symbol, side, quantity) on a FuturesBot.
CallPlaceMarketOrder ==
    \E quantity \in CallQuantities, reply \in OrderReplies :
        LET r == FuturesBot_place_market_order(call.symbol, call.entry_side, quantity, reply)
        IN  /\ call.fn = "none"
            /\ call' = [call EXCEPT !.fn = "FuturesBot.place_market_order", !.out = r.out]
            /\ orders' = orders \o r.attempts
            /\ UNCHANGED <<ledgerVars, concVars, cfg, ses>>

\* bot.place_market_order(symbol, side, amount) on a RealFuturesBot.
CallRealPlaceMarketOrder ==
    \E quantity \in CallQuantities, reply \in OrderReplies :
        LET r == RealFuturesBot_place_market_order(call.symbol, call.entry_side, quantity, reply)
        IN  /\ call.fn = "none"
            /\ call' = [call EXCEPT !.fn = "RealFuturesBot.place_market_order", !.out = r.out]
            /\ orders' = orders \o r.attempts
            /\ UNCHANGED <<ledgerVars, concVars, cfg, ses>>

\* MockFuturesBot().place_market_order(symbol, side, amount) in a new data
\* directory.
CallMockPlaceMarketOrder ==
    \E symbol \in SymbolInputs, arg \in CallAmountInputs :
        LET placed == MockFuturesBot_place_market_order(DefaultBalance, DefaultPrices, symbol,
                                                        call.entry_side, ParseFloat(arg))
        IN  /\ call.fn = "none"
            /\ call' = [call EXCEPT !.fn = "MockFuturesBot.place_market_order",
                                    !.symbol = symbol, !.out = placed.out]
            /\ balance_file' = File(placed.stored)
            /\ price_file' = File(DefaultPrices)
            /\ UNCHANGED <<last, n_commands, concVars, sessionVars>>

NextCalls ==
    \/ CallSize \/ CallMockSize \/ CallSetRiskManagement
    \/ CallPlaceMarketOrder \/ CallRealPlaceMarketOrder \/ CallMockPlaceMarketOrder

SpecCalls == InitCalls /\ [][NextCalls]_vars

(* ------------------------------------------------------------------ *)
(* claims about the mock ledger                                        *)
(* ------------------------------------------------------------------ *)

\* The stored balances, and the arguments and price of the last command.
Balances == balance_file.json
LastQuote == MockFuturesBot_get_price(price_file.json, last.symbol)
LastIsOrder == last.command \in {"buy", "sell"} /\ last.amount # FZero

\* The symbols of the price list as they are listed, and the asset each trades.
ListedSymbols == {BTCUSDT, ETHUSDT, BNBUSDT}
BaseAsset(symbol) ==
    CASE symbol = BTCUSDT -> BTC [] symbol = ETHUSDT -> ETH [] symbol = BNBUSDT -> BNB

\* Two balance stores hold the same quantity of every asset (an asset that is
\* not a key holds zero).
SameBalances(x, y) ==
    \A a \in (DOMAIN x) \cup (DOMAIN y) : DictGet(x, a, FZero) = DictGet(y, a, FZero)

\* Only the assets of listed symbols were ever traded.
OnlyListedTraded == DOMAIN Balances \subseteq {USDT, BTC, ETH, BNB}

\* C1: after any sequence of buy and sell commands on listed symbols from the
\* default balances, every balance of the store is >= 0.
C1_NonNegativeLedger ==
    (balance_file.exists /\ OnlyListedTraded) =>
        \A a \in DOMAIN Balances : ~FIsNeg(Balances[a])

\* The debit side of the last order was insufficient: a BUY costing more than
\* the USDT held, or a SELL of more than the base asset held.
LastInsufficient ==
    /\ LastIsOrder
    /\ ~LastQuote.raised
    /\ \/ /\ last.command = "buy"
          /\ ~FGE(last.before[USDT], FMulInt(LastQuote.value, last.amount))
       \/ /\ last.command = "sell"
          /\ ~FGE(DictGet(last.before, StrRemove(last.symbol, USDT), FZero), last.amount)

\* C2: an order whose debit side is insufficient raises an error and leaves
\* the stored balances identical to those before the call.
C2_AtomicFailure ==
    LastInsufficient => /\ last.out.raised
                        /\ ~last.saved
                        /\ Balances = last.before

\* An order was rejected for insufficient funds while the store held funds.
C2_Witness ==
    /\ LastInsufficient
    /\ last.out.raised
    /\ last.command = "sell"
    /\ last.symbol = BTCUSDT
    /\ last.before[BTC] = FZero
    /\ last.before[USDT] # FInt(1000)

C10_RoundTrip ==
    [][(/\ last.command = "buy" /\ last.saved
        /\ last.symbol \in ListedSymbols
        /\ last.amount # FZero /\ ~FIsNeg(last.amount)
        /\ last'.command = "sell"
        /\ last'.symbol = last.symbol /\ last'.amount = last.amount)
       => (/\ last'.saved
           /\ SameBalances(balance_file'.json, last.before))]_vars

(* ------------------------------------------------------------------ *)
(* claims about concurrent orders                                      *)
(* ------------------------------------------------------------------ *)

\* The balances after process p's order alone is run on the balances bal.
After(bal, p) ==
    MockFuturesBot_place_market_order(bal, price_file.json, procs[p].symbol, procs[p].side,
                     ParseFloat(procs[p].arg)).stored

\* C6: two concurrent orders leave the balances one of the two serial orders
\* of the calls would leave, and no balance negative.
C6_SerializedLedger ==
    (\A p \in Procs : procs[p].pc = "done") =>
        /\ \/ Balances = After(After(DefaultBalance, 1), 2)
           \/ Balances = After(After(DefaultBalance, 2), 1)
        /\ \A a \in DOMAIN Balances : ~FIsNeg(Balances[a])

(* ------------------------------------------------------------------ *)
(* claims about the trading session and its functions                  *)
(* ------------------------------------------------------------------ *)

\* The order attempts made for a purpose.
Attempts(purposes) == {i \in DOMAIN orders : orders[i].request.purpose \in purposes}
ExitPurposes == {"stop_loss", "take_profit"}

\* C4: an exit order is submitted only after an entry order the exchange
\* accepted; a session whose sizing failed or whose entry was rejected submits
\* no exit order.
C4_NoExitWithoutEntry ==
    /\ \A i \in Attempts(ExitPurposes) :
           \E j \in Attempts({"entry"}) : j < i /\ orders[j].reply = "accepted"
    /\ (ses.sized.none \/ ses.entry_order.none) => Attempts(ExitPurposes) = {}

\* The session ended with an accepted entry and both exits submitted.
C4_Witness ==
    /\ ses.pc = "done"
    /\ ~ses.entry_order.none
    /\ Attempts({"stop_loss"}) # {} /\ Attempts({"take_profit"}) # {}

\* C5 (under the shipped configuration): the two exits are submitted
\* independently: after a rejected stop-loss the take-profit is still
\* submitted, and a single rejected exit does not
\* turn the result of set_risk_management into a bare failure (None).
C5_IndependentExits ==
    (/\ ses.pc = "done" /\ ~ses.entry_order.none
     /\ cfg.stop_loss_pct = STOP_LOSS_PCT /\ cfg.leverage = LEVERAGE) =>
        /\ (\E i \in Attempts({"stop_loss"}) : orders[i].reply = "rejected")
               => Attempts({"take_profit"}) # {} /\ ~ses.risk_orders.none
        /\ (\E i \in Attempts({"take_profit"}) : orders[i].reply = "rejected")
               => ~ses.risk_orders.none

\* The sizing inputs of the session are invalid: a stop-loss percentage,
\* leverage or price that is not positive, or no balance.
InvalidSizingInput ==
    \/ cfg.stop_loss_pct.num <= 0
    \/ cfg.leverage <= 0
    \/ ses.balance.none
    \/ (~ses.mark_price.none /\ ses.mark_price.some.num <= 0)

\* C7: with an invalid sizing input calculate_position_size fails, returns no
\* quantity, and the session submits no entry order.
C7_SizingRejectsInvalid ==
    (ses.pc \notin {"start", "sizing"} /\ InvalidSizingInput) =>
        /\ ses.pc = "crashed"
        /\ ses.sized.none
        /\ Attempts({"entry"}) = {}

\* The quantity of the spec's formula, rounded to 3 decimals.
SpecQuantity(balance, price, risk_pct, stop_pct, leverage) ==
    Round(RDiv(RMul(RMul(RDiv(RMul(balance, risk_pct), RInt(100)), RInt(leverage)), RInt(1)),
               RMul(price, stop_pct)), 3)

\* C8: for positive arguments both calculate_position_size functions return
\* (balance * risk_percent / 100 * leverage) / (price * stop_pct) rounded to 3
\* decimals.
C8_PositionSizeFormula ==
    (call.fn \in {"my_trading_bot.calculate_position_size",
                  "trading_bot.calculate_position_size"}) =>
        /\ ~call.out.raised
        /\ call.out.value.quantity =
               SpecQuantity(call.balance, call.out.value.price, call.risk_pct,
                            call.stop_loss_pct, call.leverage)

\* C9: every exit order set_risk_management submits has the side opposite to
\* entry_side and is a STOP_MARKET order with closePosition and reduceOnly.
C9_ExitSideInverted ==
    (call.fn = "set_risk_management") =>
        \A i \in Attempts(ExitPurposes) :
            LET request == orders[i].request
            IN  /\ request.side # call.entry_side
                /\ call.entry_side = SIDE_BUY => request.side = SIDE_SELL
                /\ call.entry_side = SIDE_SELL => request.side = SIDE_BUY
                /\ request.type = "STOP_MARKET"
                /\ request.closePosition /\ request.reduceOnly

\* A short entry got both exits, each a BUY.
C9_Witness ==
    /\ call.fn = "set_risk_management"
    /\ call.entry_side = SIDE_SELL
    /\ Attempts({"stop_loss"}) # {} /\ Attempts({"take_profit"}) # {}
    /\ \A i \in Attempts(ExitPurposes) : orders[i].request.side = SIDE_BUY

(* ------------------------------------------------------------------ *)
(* claims about processes using the mock bot one after the other       *)
(* ------------------------------------------------------------------ *)

\* The price the process of this step got for its symbol.
NextQuote == MockFuturesBot_get_price(price_file'.json, last'.symbol)

\* C11: a successful order saves its balances; the bot constructed by the
\* next process reads exactly the balances the previous process left; and a
\* constructor that finds a balance file leaves it as it is.
C11_DurableBalances ==
    [][/\ (last'.command = "order" /\ ~last'.out.raised) =>
              /\ last'.saved
              /\ balance_file' = File(FillBalance(last'.before, NextQuote, last'.symbol,
                                                  last'.side, last'.amount).value)
       /\ balance_file.exists => last'.before = balance_file.json
       /\ (balance_file.exists /\ last'.command = "construct") =>
              balance_file' = balance_file]_vars

\* A restart after a trade found the traded balances and left them.
C11_Witness ==
    /\ last.command = "construct"
    /\ last.before # DefaultBalance
    /\ Balances = last.before

(* ------------------------------------------------------------------ *)
(* more claims about the trading session                               *)
(* ------------------------------------------------------------------ *)

\* The configuration section is as shipped.
ShippedConfig == cfg.stop_loss_pct = STOP_LOSS_PCT /\ cfg.leverage = LEVERAGE

\* The script has ended: normally, or with an uncaught exception.
Ended == ses.pc \in {"done", "crashed"}

\* C12 (under the shipped configuration): sizing precedes the entry order and
\* the entry order precedes the exit orders; the session fails only in sizing
\* or at the entry order; and a session whose entry order was confirmed
\* submits exits and ends normally, whatever the exchange answers to them.
C12_SessionStateMachine ==
    ShippedConfig =>
        /\ Attempts({"entry"}) # {} => ~ses.sized.none
        /\ \A i \in Attempts(ExitPurposes) : \E j \in Attempts({"entry"}) : j < i
        /\ ses.pc = "crashed" => ses.entry_order.none
        /\ (Ended /\ ~ses.entry_order.none) =>
               ses.pc = "done" /\ Attempts({"stop_loss"}) # {}

\* The functions that submit orders.
OrderFunctions ==
    {"FuturesBot.place_market_order", "set_risk_management",
     "RealFuturesBot.place_market_order", "MockFuturesBot.place_market_order"}

\* C13: every call that submits an order has written a log record by the time
\* it returns or raises, whether the order was accepted or rejected (calls
\* that lost the connection to the exchange are left aside).
C13_AuditTrail ==
    (/\ call.fn \in OrderFunctions
     /\ \A i \in DOMAIN orders : orders[i].reply \in {"accepted", "rejected"}) =>
        call.out.logs # << >>

\* C14: a session submits at most one entry order, one stop-loss and one
\* take-profit, also after a rejection, and it ends.
C14_NoRetry ==
    /\ [](\A purpose \in {"entry", "stop_loss", "take_profit"} :
              Cardinality(Attempts({purpose})) <= 1)
    /\ <>Ended

\* A session ended after a rejected entry order that was submitted once.
C14_Witness ==
    /\ ses.pc = "done"
    /\ Cardinality(Attempts({"entry"})) = 1
    /\ \E i \in Attempts({"entry"}) : orders[i].reply = "rejected"

(* ------------------------------------------------------------------ *)
(* more claims about the mock bot                                      *)
(* ------------------------------------------------------------------ *)

\* What a bot reads from a file: its content, or the default the constructor
\* writes when the file is missing.
Stored(f, default) == InitFile(f, default).json

\* C15: the commands prices, balance and calc (calculate_position_size) leave
\* the balances and the price list a bot reads as they were, rewrite no
\* existing file and submit no order, whether they succeed or fail.
C15_SizingNoSideEffects ==
    [][last'.command \in {"prices", "balance", "calc"} =>
          /\ Stored(balance_file', DefaultBalance) = Stored(balance_file, DefaultBalance)
          /\ Stored(price_file', DefaultPrices) = Stored(price_file, DefaultPrices)
          /\ balance_file.exists => balance_file' = balance_file
          /\ price_file.exists => price_file' = price_file
          /\ ~last'.saved
          /\ orders' = orders]_vars

\* A calc command succeeded on a store that a trade had changed.
C15_Witness ==
    /\ last.command = "calc"
    /\ last.symbol = BTCUSDT
    /\ ~last.out.raised
    /\ last.before # DefaultBalance
    /\ Balances = last.before

(* ------------------------------------------------------------------ *)
(* the exit price levels of the session                                *)
(* ------------------------------------------------------------------ *)

\* The stop prices of the exit orders the session submitted.
StopPrices(purpose) == {orders[i].request.stopPrice.some : i \in Attempts({purpose})}

\* C16 (under the shipped percentages and leverage): the stop-loss is
\* submitted at entry_price * (1 - stop_loss_pct) and the
\* take-profit at entry_price * (1 + take_profit_pct), each rounded to 2
\* decimals, entry_price being the price read during sizing; and with
\* positive percentages stop-loss price < entry_price < take-profit price.
C16_ExitPriceLevels ==
    LET entry_price == ses.sized.some.price
    IN  ShippedConfig =>
        /\ \A p \in StopPrices("stop_loss") :
               /\ p = Round(RMul(entry_price, RSub(RInt(1), cfg.stop_loss_pct)), 2)
               /\ entry_price = ses.mark_price.some
               /\ RLess(RInt(0), cfg.stop_loss_pct) => RLess(p, entry_price)
        /\ \A p \in StopPrices("take_profit") :
               /\ p = Round(RMul(entry_price, RAdd(RInt(1), cfg.take_profit_pct)), 2)
               /\ entry_price = ses.mark_price.some
               /\ RLess(RInt(0), cfg.take_profit_pct) => RLess(entry_price, p)

(* ------------------------------------------------------------------ *)
(* the value of the mock portfolio                                     *)
(* ------------------------------------------------------------------ *)

\* USDT + price * balance of the assets of the first i price list entries,
\* in float arithmetic.
RECURSIVE ValueUpTo(_, _, _)
ValueUpTo(bal, prices, i) ==
    IF i = 0 THEN DictGet(bal, USDT, FZero)
    ELSE FAdd(ValueUpTo(bal, prices, i - 1),
              FMulInt(prices[i].price,
                      DictGet(bal, StrRemove(prices[i].symbol, USDT), FZero)))

PortfolioValue(bal, prices) == ValueUpTo(bal, prices, Len(prices))

\* C17: whatever orders on listed symbols were placed, the value of the stored
\* portfolio at the listed prices is the 1000 USDT it started with (stores
\* with a negative balance, which C1 excludes, are left aside).
C17_ValueConservation ==
    (/\ balance_file.exists /\ price_file.exists
     /\ OnlyListedTraded
     /\ \A a \in DOMAIN Balances : ~FIsNeg(Balances[a])) =>
        PortfolioValue(Balances, price_file.json) = FInt(1000)

(* ------------------------------------------------------------------ *)
(* rejected requests                                                   *)
(* ------------------------------------------------------------------ *)

\* The last process placed an order the bot cannot take: its symbol is not in
\* the price list, or its side is neither BUY nor SELL.
LastMalformed ==
    /\ last.command = "order"
    /\ \/ MockFuturesBot_get_price(price_file.json, last.symbol).raised
       \/ last.side \notin {SIDE_BUY, SIDE_SELL}

\* C18: an order with an unknown symbol or an invalid side raises, returns no
\* order and leaves the stored balances as they were; and an order is
\* returned only when the balances were saved.
C18_RejectedRequests ==
    /\ LastMalformed => /\ last.out.raised
                        /\ ~last.saved
                        /\ Balances = last.before
    /\ (last.command = "order" /\ ~last.out.raised) => last.saved

\* An order with an invalid side was rejected on a store a trade had changed.
C18_Witness ==
    /\ LastMalformed
    /\ last.side = "HOLD"
    /\ last.symbol = BTCUSDT
    /\ last.out.raised
    /\ last.before # DefaultBalance
====
